---- MODULE Spec2Model ----
(***************************************************************************)
(* The modal controller of crates/vim/src/vim.rs: the Vim singleton (mode, *)
(* operator stack, enabled flag, the weak reference to the active editor), *)
(* the settings reconciliation into that editor and into the command       *)
(* palette filter, and the keystroke observer.                             *)
(***************************************************************************)
EXTENDS Integers, Sequences, FiniteSets, TLC

VARIABLES
    active_editor,        \* Vim.active_editor: "None" or "Some" (the editor below)
    enabled,              \* Vim.enabled
    mode,                 \* Vim.state.mode
    operator_stack,       \* Vim.state.operator_stack, top = last element
    editor,               \* the Editor the weak handle points to
    filtered_namespaces,  \* CommandPaletteFilter.filtered_namespaces
    fault,                \* "none", or the panic that aborted the process
    deferred,             \* whether the update the Cancel handler deferred is pending
    call,                 \* history: the entry point that ran last, with its arguments
    ret,                  \* history: what that entry point returned
    prior,                \* history: what the state was when it was entered
    run                   \* history: digits typed by push_number since the stack was empty

vars == <<active_editor, enabled, mode, operator_stack, editor,
          filtered_namespaces, fault, deferred, call, ret, prior, run>>

-----------------------------------------------------------------------------
(* Bounds of the exploration.                                              *)

MaxStack == 2     \* deepest operator stack explored
MaxCount == 2     \* counts up to here take a further digit in Spec
MaxRun == 20      \* length of the uniform digit runs of CountRuns
LineLen == 1      \* columns of the one line of the editor's buffer

Digits == {0, 2}  \* the digits of the Number action in Spec

-----------------------------------------------------------------------------
(* usize: a 64-bit unsigned integer, kept as little-endian 16-bit limbs.   *)

UsizeBits == 64
Limb == 2 ^ 16
NLimbs == UsizeBits \div 16

RECURSIVE MulAddLimbs(_, _, _)
\* limbs of v * 10 + carry, with the carry out of the last limb appended
MulAddLimbs(v, carry, i) ==
    IF i > Len(v) THEN <<carry>>
    ELSE LET c == v[i] * 10 + carry
         IN  <<c % Limb>> \o MulAddLimbs(v, c \div Limb, i + 1)

\* a small natural number as a usize
Usize(n) == [i \in 1..NLimbs |-> IF i = 1 THEN n % Limb
                                 ELSE IF i = 2 THEN n \div Limb ELSE 0]

\* current_number * 10 + digit in usize arithmetic: the wrapped value, and
\* whether the mathematical result left the range of usize
usize_mul10_add(n, digit) ==
    LET r == MulAddLimbs(n, digit, 1)
    IN  [value |-> SubSeq(r, 1, NLimbs), overflow |-> r[NLimbs + 1] > 0]

\* the mathematical value d1 d2 ... dn of a digit sequence, in limbs wide
\* enough that nothing is lost
RECURSIVE DecimalValue(_)
DecimalValue(digits) ==
    IF digits = <<>> THEN [i \in 1..(NLimbs + 2) |-> 0]
    ELSE LET r == MulAddLimbs(DecimalValue(SubSeq(digits, 1, Len(digits) - 1)),
                              digits[Len(digits)], 1)
         IN  SubSeq(r, 1, NLimbs + 2)

Widen(n) == n \o <<0, 0>>

-----------------------------------------------------------------------------
(* state.rs: Mode, Operator, VimState and what it derives for the editor.  *)

Normal == [kind |-> "Normal"]
Insert == [kind |-> "Insert"]
Visual(line) == [kind |-> "Visual", line |-> line]
Modes == {Normal, Insert, Visual(FALSE), Visual(TRUE)}

None == [kind |-> "None"]
Number(n) == [kind |-> "Number", n |-> n]
FindForward(before) == [kind |-> "FindForward", before |-> before]
FindBackward(after) == [kind |-> "FindBackward", after |-> after]
Replace == [kind |-> "Replace"]
Delete == [kind |-> "Delete"]

\* the operators the PushOperator action is explored with
Operators == {FindForward(FALSE), FindBackward(TRUE), Replace, Delete}

\* impl Default for VimState
DefaultVimState == [mode |-> Normal, operator_stack |-> <<>>]

cursor_shape(m) == IF m.kind = "Insert" THEN "Bar" ELSE "Block"

vim_controlled(m) == m.kind # "Insert"

clip_at_line_end(m) == m.kind \notin {"Insert", "Visual"}

empty_selections_only(m) == m.kind # "Visual"

keymap_context_layer(m, stack) ==
    [vim_mode |-> m.kind,
     vim_operator |-> IF stack = <<>> THEN "none" ELSE stack[Len(stack)].kind]

-----------------------------------------------------------------------------
(* The editor: its mode, the settings the controller pushes, one selection *)
(* on a buffer of one line.                                                *)

EditorModes == {"Full", "SingleLine"}

Points == 0..LineLen

Selections == {<<[tail |-> t, head |-> h]>> : t \in Points, h \in Points}

\* a newly built editor
NewEditor(editor_mode) ==
    [mode |-> editor_mode,
     cursor_shape |-> "Bar",
     clip_at_line_ends |-> FALSE,
     input_enabled |-> TRUE,
     line_mode |-> FALSE,
     keymap_context_layer |-> None,
     selections |-> <<[tail |-> 0, head |-> 0]>>]

\* DisplaySnapshot::clip_point(point, Bias::Left)
clip_point(ed, point) ==
    IF ed.clip_at_line_ends /\ point = LineLen /\ point > 0 THEN point - 1 ELSE point

\* Selection::collapse_to
collapse_to(selection, point) == [tail |-> point, head |-> point]

\* Selection::set_head
set_head(selection, point) == [selection EXCEPT !.head = point]

-----------------------------------------------------------------------------
(* impl Vim.  A world w is the Vim singleton together with what it reaches *)
(* through cx: the active editor and the command palette filter.           *)

World ==
    [active_editor |-> active_editor, enabled |-> enabled, mode |-> mode,
     operator_stack |-> operator_stack, editor |-> editor,
     filtered_namespaces |-> filtered_namespaces, fault |-> fault,
     deferred |-> deferred]

\* Vim::update_active_editor: runs the update when the weak handle upgrades
update_active_editor(w, updated) ==
    IF w.active_editor = "Some" THEN [w EXCEPT !.editor = updated] ELSE w

\* Vim::active_operator
active_operator(w) ==
    IF w.operator_stack = <<>> THEN None ELSE w.operator_stack[Len(w.operator_stack)]

\* unhook_vim_settings without set_line_mode(false)
unhook_vim_settings_keeps_line_mode(ed) ==
    [ed EXCEPT !.cursor_shape = "Bar",
               !.clip_at_line_ends = FALSE,
               !.input_enabled = TRUE,
               !.keymap_context_layer = None]

\* Vim::unhook_vim_settings
unhook_vim_settings(ed) ==
    [ed EXCEPT !.cursor_shape = "Bar",
               !.clip_at_line_ends = FALSE,
               !.input_enabled = TRUE,
               !.line_mode = FALSE,
               !.keymap_context_layer = None]

\* sync_vim_settings without the update of the command palette filter
sync_vim_settings_keeps_filter(w) ==
    LET ed == w.editor
        synced ==
            IF w.enabled /\ ed.mode = "Full"
            THEN [ed EXCEPT !.cursor_shape = cursor_shape(w.mode),
                            !.clip_at_line_ends = clip_at_line_end(w.mode),
                            !.input_enabled = ~vim_controlled(w.mode),
                            !.line_mode = (w.mode = Visual(TRUE)),
                            !.keymap_context_layer =
                                keymap_context_layer(w.mode, w.operator_stack)]
            ELSE unhook_vim_settings(ed)
    IN  update_active_editor(w, synced)

\* sync_vim_settings setting the line mode in every Visual mode
sync_vim_settings_line_mode_in_visual(w) ==
    LET filtered == IF w.enabled THEN w.filtered_namespaces \ {"vim"}
                    ELSE w.filtered_namespaces \cup {"vim"}
        ed == w.editor
        synced ==
            IF w.enabled /\ ed.mode = "Full"
            THEN [ed EXCEPT !.cursor_shape = cursor_shape(w.mode),
                            !.clip_at_line_ends = clip_at_line_end(w.mode),
                            !.input_enabled = ~vim_controlled(w.mode),
                            !.line_mode = (w.mode.kind = "Visual"),
                            !.keymap_context_layer =
                                keymap_context_layer(w.mode, w.operator_stack)]
            ELSE unhook_vim_settings(ed)
    IN  update_active_editor([w EXCEPT !.filtered_namespaces = filtered], synced)

\* sync_vim_settings leaving the editor's raw input enabled
sync_vim_settings_input_enabled(w) ==
    LET filtered == IF w.enabled THEN w.filtered_namespaces \ {"vim"}
                    ELSE w.filtered_namespaces \cup {"vim"}
        ed == w.editor
        synced ==
            IF w.enabled /\ ed.mode = "Full"
            THEN [ed EXCEPT !.cursor_shape = cursor_shape(w.mode),
                            !.clip_at_line_ends = clip_at_line_end(w.mode),
                            !.input_enabled = TRUE,
                            !.line_mode = (w.mode = Visual(TRUE)),
                            !.keymap_context_layer =
                                keymap_context_layer(w.mode, w.operator_stack)]
            ELSE unhook_vim_settings(ed)
    IN  update_active_editor([w EXCEPT !.filtered_namespaces = filtered], synced)

\* Vim::sync_vim_settings
sync_vim_settings(w) ==
    LET filtered == IF w.enabled THEN w.filtered_namespaces \ {"vim"}
                    ELSE w.filtered_namespaces \cup {"vim"}
        ed == w.editor
        synced ==
            IF w.enabled /\ ed.mode = "Full"
            THEN [ed EXCEPT !.cursor_shape = cursor_shape(w.mode),
                            !.clip_at_line_ends = clip_at_line_end(w.mode),
                            !.input_enabled = ~vim_controlled(w.mode),
                            !.line_mode = (w.mode = Visual(TRUE)),
                            !.keymap_context_layer =
                                keymap_context_layer(w.mode, w.operator_stack)]
            ELSE unhook_vim_settings(ed)
    IN  update_active_editor([w EXCEPT !.filtered_namespaces = filtered], synced)

\* the closure collapsing the selection whatever the mode is
adjust_selection_always_collapses(w, selection) ==
    collapse_to(selection, clip_point(w.editor, selection.head))

\* the closure switch_mode hands to move_with
adjust_selection(w, selection) ==
    IF empty_selections_only(w.mode)
    THEN collapse_to(selection, clip_point(w.editor, selection.head))
    ELSE set_head(selection, clip_point(w.editor, selection.head))

\* switch_mode syncing the settings before it sets the mode
switch_mode_syncs_first(w, m, leave_selections) ==
    LET w0 == sync_vim_settings(w)
        w1 == [w0 EXCEPT !.mode = m, !.operator_stack = <<>>]
    IN  IF leave_selections THEN w1
        ELSE update_active_editor(w1,
                 [w1.editor EXCEPT !.selections =
                      [i \in DOMAIN @ |-> adjust_selection(w1, @[i])]])

\* switch_mode without operator_stack.clear()
switch_mode_keeps_stack(w, m, leave_selections) ==
    LET w1 == sync_vim_settings([w EXCEPT !.mode = m])
    IN  IF leave_selections THEN w1
        ELSE update_active_editor(w1,
                 [w1.editor EXCEPT !.selections =
                      [i \in DOMAIN @ |-> adjust_selection(w1, @[i])]])

\* Vim::switch_mode
switch_mode(w, m, leave_selections) ==
    LET w1 == sync_vim_settings([w EXCEPT !.mode = m, !.operator_stack = <<>>])
    IN  IF leave_selections THEN w1
        ELSE update_active_editor(w1,
                 [w1.editor EXCEPT !.selections =
                      [i \in DOMAIN @ |-> adjust_selection(w1, @[i])]])

\* Vim::push_operator
push_operator(w, operator) ==
    sync_vim_settings([w EXCEPT !.operator_stack = Append(@, operator)])

\* pop_operator with the empty stack tolerated instead of expect()
pop_operator_silent(w) ==
    IF w.operator_stack = <<>>
    THEN [world |-> sync_vim_settings(w), popped |-> None]
    ELSE [world |-> sync_vim_settings(
                        [w EXCEPT !.operator_stack = SubSeq(@, 1, Len(@) - 1)]),
          popped |-> w.operator_stack[Len(w.operator_stack)]]

\* Vim::pop_operator: the world afterwards and the operator returned; expect()
\* panics on an empty stack
pop_operator(w) ==
    IF w.operator_stack = <<>>
    THEN [world |-> [w EXCEPT !.fault = "pop_empty"], popped |-> None]
    ELSE [world |-> sync_vim_settings(
                        [w EXCEPT !.operator_stack = SubSeq(@, 1, Len(@) - 1)]),
          popped |-> w.operator_stack[Len(w.operator_stack)]]

\* Vim::push_number.  overflow_checks is the build's setting: with it an
\* overflowing current_number * 10 + number panics, without it the value wraps
push_number(w, number, overflow_checks) ==
    LET current == active_operator(w)
    IN  IF current.kind = "Number"
        THEN LET p == pop_operator(w)
                 r == usize_mul10_add(current.n, number)
             IN  IF p.world.fault # "none" THEN p.world
                 ELSE IF r.overflow /\ overflow_checks
                 THEN [p.world EXCEPT !.fault = "overflow"]
                 ELSE push_operator(p.world, Number(r.value))
        ELSE push_operator(w, Number(Usize(number)))

\* pop_number_operator popping whatever operator is active
pop_number_operator_always_pops(w) ==
    LET current == active_operator(w)
    IN  IF current # None
        THEN [world |-> pop_operator(w).world,
              times |-> IF current.kind = "Number" THEN current.n ELSE Usize(1)]
        ELSE [world |-> w, times |-> Usize(1)]

\* pop_number_operator popping before it looks at the active operator
pop_number_operator_pops_first(w) ==
    LET current == active_operator(w)
    IN  [world |-> pop_operator(w).world,
         times |-> IF current.kind = "Number" THEN current.n ELSE Usize(1)]

\* Vim::pop_number_operator: the world afterwards and the count returned
pop_number_operator(w) ==
    LET current == active_operator(w)
    IN  IF current.kind = "Number"
        THEN [world |-> pop_operator(w).world, times |-> current.n]
        ELSE [world |-> w, times |-> Usize(1)]

\* Vim::clear_operator
clear_operator(w) == sync_vim_settings([w EXCEPT !.operator_stack = <<>>])

\* set_enabled without the switch to Normal and the final sync
set_enabled_no_sync(w, e) ==
    IF w.enabled # e
    THEN [w EXCEPT !.enabled = e,
                   !.mode = DefaultVimState.mode,
                   !.operator_stack = DefaultVimState.operator_stack]
    ELSE w

\* set_enabled without the reset of the state
set_enabled_keeps_state(w, e) ==
    IF w.enabled # e
    THEN LET w1 == [w EXCEPT !.enabled = e]
             w2 == IF e THEN switch_mode(w1, Normal, FALSE) ELSE w1
         IN  sync_vim_settings(w2)
    ELSE w

\* set_enabled without the test for a change of the flag
set_enabled_unconditional(w, e) ==
    LET w1 == [w EXCEPT !.enabled = e,
                        !.mode = DefaultVimState.mode,
                        !.operator_stack = DefaultVimState.operator_stack]
        w2 == IF e THEN switch_mode(w1, Normal, FALSE) ELSE w1
    IN  sync_vim_settings(w2)

\* Vim::set_enabled
set_enabled(w, e) ==
    IF w.enabled # e
    THEN LET w1 == [w EXCEPT !.enabled = e,
                             !.mode = DefaultVimState.mode,
                             !.operator_stack = DefaultVimState.operator_stack]
             w2 == IF e THEN switch_mode(w1, Normal, FALSE) ELSE w1
         IN  sync_vim_settings(w2)
    ELSE w

\* the observer clearing every active operator, argument-pending or not
observe_keystrokes_clears_any(w, handled_by) ==
    IF handled_by # None
       /\ (handled_by.namespace = "vim"
           \/ (handled_by.namespace = "editor" /\ handled_by.name = "Cancel"))
    THEN w
    ELSE IF active_operator(w) # None THEN clear_operator(w) ELSE w

\* the observer popping the active operator instead of clearing the stack
observe_keystrokes_pops_top(w, handled_by) ==
    IF handled_by # None
       /\ (handled_by.namespace = "vim"
           \/ (handled_by.namespace = "editor" /\ handled_by.name = "Cancel"))
    THEN w
    ELSE LET active == active_operator(w)
         IN  IF active.kind \in {"FindForward", "FindBackward", "Replace"} THEN w
             ELSE IF active # None THEN pop_operator(w).world
             ELSE w

\* the observer without the short circuit for editor::Cancel
observe_keystrokes_no_cancel(w, handled_by) ==
    IF handled_by # None /\ handled_by.namespace = "vim"
    THEN w
    ELSE LET active == active_operator(w)
         IN  IF active.kind \in {"FindForward", "FindBackward", "Replace"} THEN w
             ELSE IF active # None THEN clear_operator(w)
             ELSE w

\* the keystroke observer of observe_keystrokes; handled_by is None or the
\* action that handled the keystroke
observe_keystrokes(w, handled_by) ==
    IF handled_by # None
       /\ (handled_by.namespace = "vim"
           \/ (handled_by.namespace = "editor" /\ handled_by.name = "Cancel"))
    THEN w
    ELSE LET active == active_operator(w)
         IN  IF active.kind \in {"FindForward", "FindBackward", "Replace"} THEN w
             ELSE IF active # None THEN clear_operator(w)
             ELSE w

\* normal::normal_replace and visual::visual_replace: the replacement is
\* made in the buffer and the operator stack returns to empty
normal_replace(w, text) == clear_operator(w)

visual_replace(w, text, line) == clear_operator(w)

\* motion::motion with Motion::FindForward or Motion::FindBackward: the
\* motion consumes the pending operators
motion(w, text) == clear_operator(w)

\* active_editor_input_ignored leaving Replace pending in the other modes
active_editor_input_ignored_keeps_replace(w, text) ==
    IF text = "" THEN w
    ELSE LET active == active_operator(w)
         IN  IF active.kind \in {"FindForward", "FindBackward"} THEN motion(w, text)
             ELSE IF active = Replace
             THEN IF w.mode = Normal THEN normal_replace(w, text)
                  ELSE IF w.mode.kind = "Visual"
                  THEN visual_replace(w, text, w.mode.line)
                  ELSE w
             ELSE w

\* Vim::active_editor_input_ignored
active_editor_input_ignored(w, text) ==
    IF text = "" THEN w
    ELSE LET active == active_operator(w)
         IN  IF active.kind \in {"FindForward", "FindBackward"} THEN motion(w, text)
             ELSE IF active = Replace
             THEN IF w.mode = Normal THEN normal_replace(w, text)
                  ELSE IF w.mode.kind = "Visual"
                  THEN visual_replace(w, text, w.mode.line)
                  ELSE clear_operator(w)
             ELSE w

\* the Cancel handler switching to Normal itself instead of deferring
cancel_synchronous(w) ==
    IF w.mode # Normal \/ active_operator(w) # None
    THEN [world |-> switch_mode(w, Normal, FALSE), propagated |-> FALSE]
    ELSE [world |-> w, propagated |-> TRUE]

\* the Cancel handler looking at the mode only
cancel_ignores_operator(w) ==
    IF w.mode # Normal
    THEN [world |-> [w EXCEPT !.deferred = TRUE], propagated |-> FALSE]
    ELSE [world |-> w, propagated |-> TRUE]

\* the handler of editor::Cancel: the world afterwards and whether the
\* action was propagated to the editor
cancel(w) ==
    IF w.mode # Normal \/ active_operator(w) # None
    THEN [world |-> [w EXCEPT !.deferred = TRUE], propagated |-> FALSE]
    ELSE [world |-> w, propagated |-> TRUE]

\* the update the Cancel handler defers
deferred_update(w) == [switch_mode(w, Normal, FALSE) EXCEPT !.deferred = FALSE]

-----------------------------------------------------------------------------
(* The state machine.                                                      *)

NoValue == [kind |-> "None"]

\* what the history keeps of the state an entry point was called in
Summary ==
    [enabled |-> enabled, mode |-> mode, active |-> active_operator(World),
     depth |-> Len(operator_stack), line_mode |-> editor.line_mode]

\* the state after init(): the default Vim, its settings synced once
Init ==
    /\ active_editor = "None"
    /\ enabled = FALSE
    /\ mode = DefaultVimState.mode
    /\ operator_stack = DefaultVimState.operator_stack
    /\ editor = NewEditor("Full")
    /\ filtered_namespaces = {"vim"}
    /\ fault = "none"
    /\ deferred = FALSE
    /\ call = [name |-> "init"]
    /\ ret = NoValue
    /\ prior = Summary
    /\ run = <<>>

\* the step that takes the program to world w, entered through call c
\* and returning r
Commit(w, c, r) ==
    /\ active_editor' = w.active_editor
    /\ enabled' = w.enabled
    /\ mode' = w.mode
    /\ operator_stack' = w.operator_stack
    /\ editor' = w.editor
    /\ filtered_namespaces' = w.filtered_namespaces
    /\ fault' = w.fault
    /\ deferred' = w.deferred
    /\ call' = c
    /\ ret' = r
    /\ prior' = Summary

\* a digit run ends with the first step that changes the stack
KeepRun(w) == run' = IF w.operator_stack = operator_stack THEN run ELSE <<>>

Small(n) == n[1] <= MaxCount /\ \A i \in 2..NLimbs : n[i] = 0

SwitchMode(m, leave_selections) ==
    /\ fault = "none" /\ ~deferred
    /\ LET w == switch_mode(World, m, leave_selections)
       IN  Commit(w, [name |-> "switch_mode", mode |-> m,
                      leave_selections |-> leave_selections], NoValue) /\ KeepRun(w)

PushOperator(operator) ==
    /\ fault = "none" /\ ~deferred
    /\ Len(operator_stack) < MaxStack
    /\ LET w == push_operator(World, operator)
       IN  Commit(w, [name |-> "push_operator", operator |-> operator], NoValue) /\ KeepRun(w)

PushNumber(number) ==
    /\ fault = "none" /\ ~deferred
    /\ IF active_operator(World).kind = "Number"
       THEN Small(active_operator(World).n)
       ELSE Len(operator_stack) < MaxStack
    /\ \E overflow_checks \in BOOLEAN :
           Commit(push_number(World, number, overflow_checks),
                  [name |-> "push_number", number |-> number], NoValue)
    /\ run' = <<>>

PopOperator ==
    /\ fault = "none" /\ ~deferred
    /\ LET p == pop_operator(World)
       IN  /\ Commit(p.world, [name |-> "pop_operator"],
                     [kind |-> "Operator", operator |-> p.popped])
           /\ KeepRun(p.world)

PopNumberOperator ==
    /\ fault = "none" /\ ~deferred
    /\ LET p == pop_number_operator(World)
       IN  /\ Commit(p.world, [name |-> "pop_number_operator"],
                     [kind |-> "usize", n |-> p.times])
           /\ KeepRun(p.world)

ClearOperator ==
    /\ fault = "none" /\ ~deferred
    /\ LET w == clear_operator(World)
       IN  Commit(w, [name |-> "clear_operator"], NoValue) /\ KeepRun(w)

SetEnabled(e) ==
    /\ fault = "none" /\ ~deferred
    /\ LET w == set_enabled(World, e)
       IN  Commit(w, [name |-> "set_enabled", enabled |-> e], NoValue) /\ KeepRun(w)

\* the actions a keystroke is explored as handled by
Handlers ==
    {None,
     [namespace |-> "vim", name |-> "PushOperator"],
     [namespace |-> "editor", name |-> "Cancel"],
     [namespace |-> "editor", name |-> "MoveDown"]}

ObserveKeystrokes(handled_by) ==
    /\ fault = "none" /\ ~deferred
    /\ LET w == observe_keystrokes(World, handled_by)
       IN  Commit(w, [name |-> "observe_keystrokes", handled_by |-> handled_by],
                  NoValue) /\ KeepRun(w)

\* a focus event binds an editor, full or single-line
EditorFocused(editor_mode) ==
    /\ fault = "none" /\ ~deferred
    /\ active_editor = "None"
    /\ Commit([World EXCEPT !.active_editor = "Some", !.editor.mode = editor_mode],
              [name |-> "editor_focused"], NoValue)
    /\ UNCHANGED run

\* the bound editor moves its selections on its own (no step of Spec: the
\* properties checked under Spec do not read the selections)
SelectionsChanged(selections) ==
    /\ fault = "none" /\ ~deferred
    /\ active_editor = "Some"
    /\ selections # editor.selections
    /\ Commit([World EXCEPT !.editor.selections = selections],
              [name |-> "selections_changed"], NoValue)
    /\ UNCHANGED run

\* a direct call of sync_vim_settings, as init makes
SyncVimSettings ==
    /\ fault = "none" /\ ~deferred
    /\ LET w == sync_vim_settings(World)
       IN  Commit(w, [name |-> "sync_vim_settings"], NoValue) /\ KeepRun(w)

\* the texts of the raw input: an empty one, and the one Tab sends
Texts == {"", " "}

ActiveEditorInputIgnored(text) ==
    /\ fault = "none" /\ ~deferred
    /\ LET w == active_editor_input_ignored(World, text)
       IN  /\ Commit(w, [name |-> "active_editor_input_ignored", text |-> text],
                     NoValue)
           /\ KeepRun(w)

Next ==
    \/ \E m \in Modes, l \in BOOLEAN : SwitchMode(m, l)
    \/ \E o \in Operators : PushOperator(o)
    \/ \E d \in Digits : PushNumber(d)
    \/ PopOperator
    \/ PopNumberOperator
    \/ ClearOperator
    \/ \E e \in BOOLEAN : SetEnabled(e)
    \/ \E h \in Handlers : ObserveKeystrokes(h)
    \/ \E m \in EditorModes : EditorFocused(m)
    \/ SyncVimSettings
    \/ \E t \in Texts : ActiveEditorInputIgnored(t)

Spec == Init /\ [][Next]_vars

-----------------------------------------------------------------------------
(* Counts typed digit by digit: runs of digits up to and across the end of *)
(* the range of usize (2^64 - 1 = 18446744073709551615).                   *)

UsizeMaxDigits == <<1, 8, 4, 4, 6, 7, 4, 4, 0, 7, 3, 7, 0, 9, 5, 5, 1, 6, 1, 5>>

CountRuns ==
    {[i \in 1..MaxRun |-> 9], [i \in 1..MaxRun |-> 1],
     UsizeMaxDigits, [UsizeMaxDigits EXCEPT ![Len(UsizeMaxDigits)] = 6],
     <<0, 4, 0, 7>>}

IsPrefix(s, t) == Len(s) <= Len(t) /\ SubSeq(t, 1, Len(s)) = s

OnCountRun(digits) == \E t \in CountRuns : IsPrefix(digits, t)

\* the Number action, on an empty stack or continuing the run of digits
TypeDigit(number) ==
    /\ fault = "none" /\ ~deferred
    /\ (operator_stack = <<>> \/ run # <<>>)
    /\ OnCountRun(IF operator_stack = <<>> THEN <<number>> ELSE Append(run, number))
    /\ \E overflow_checks \in BOOLEAN :
           Commit(push_number(World, number, overflow_checks),
                  [name |-> "push_number", number |-> number], NoValue)
    /\ run' = IF operator_stack = <<>> THEN <<number>> ELSE Append(run, number)

NextCount ==
    \/ \E d \in 0..9 : TypeDigit(d)
    \/ PopNumberOperator
    \/ \E e \in BOOLEAN : SetEnabled(e)
    \/ \E m \in EditorModes : EditorFocused(m)

SpecCount == Init /\ [][NextCount]_vars

-----------------------------------------------------------------------------
(* The controller over an editor whose selections move: mode switches,     *)
(* Replace operators, the setting, focus, and the editor's own selection   *)
(* changes, of one or two selections.                                      *)

SelectionLists == Selections \cup {a \o b : a, b \in Selections}

NextSurface ==
    \/ \E m \in Modes, l \in BOOLEAN : SwitchMode(m, l)
    \/ PushOperator(Replace)
    \/ \E e \in BOOLEAN : SetEnabled(e)
    \/ \E m \in EditorModes : EditorFocused(m)
    \/ \E s \in SelectionLists : SelectionsChanged(s)

SpecSurface == Init /\ [][NextSurface]_vars

-----------------------------------------------------------------------------
(* Cancel.  The handler of editor::Cancel defers its update; gpui runs a   *)
(* deferred update when the effects of the current dispatch are flushed,    *)
(* before the next event is dispatched: no handler runs while it is         *)
(* pending.                                                                  *)

Cancel ==
    /\ fault = "none" /\ ~deferred
    /\ LET c == cancel(World)
       IN  Commit(c.world, [name |-> "cancel"],
                  [kind |-> "Propagated", propagated |-> c.propagated])
    /\ UNCHANGED run

RunDeferred ==
    /\ fault = "none"
    /\ deferred
    /\ Commit(deferred_update(World), [name |-> "deferred_update"], NoValue)
    /\ UNCHANGED run

NextCancel ==
    \/ \E m \in Modes, l \in BOOLEAN : SwitchMode(m, l)
    \/ \E o \in Operators : PushOperator(o)
    \/ \E h \in Handlers : ObserveKeystrokes(h)
    \/ \E e \in BOOLEAN : SetEnabled(e)
    \/ \E m \in EditorModes : EditorFocused(m)
    \/ Cancel
    \/ RunDeferred

SpecCancel == Init /\ [][NextCancel]_vars

\* the effects of a dispatch are always flushed
FairCancel == SpecCancel /\ WF_vars(RunDeferred)

-----------------------------------------------------------------------------
(* Properties.                                                             *)

\* everything but the history
program == <<active_editor, enabled, mode, operator_stack, editor,
             filtered_namespaces, fault, deferred>>

\* the digit sequence denotes a value in the range of usize
FitsUsize(digits) ==
    \A i \in (NLimbs + 1)..(NLimbs + 2) : DecimalValue(digits)[i] = 0

\* C1: after push_number(d1), ..., push_number(dn) from an empty stack, every
\* push completes and pop_number_operator returns the base-10 value
\* d1 d2 ... dn and leaves the operator stack empty.
C1_CountAccumulates ==
    [][/\ (call'.name = "push_number" /\ run' # <<>>) => fault' = "none"
       /\ (call'.name = "pop_number_operator" /\ run # <<>>) =>
              /\ Widen(ret'.n) = DecimalValue(run)
              /\ operator_stack' = <<>>]_vars

\* C1, within the range of usize: the same as long as the value d1 d2 ... dn
\* is at most 2^64 - 1.
C1_CountAccumulatesInRange ==
    [][/\ (call'.name = "push_number" /\ run' # <<>> /\ FitsUsize(run')) =>
              fault' = "none"
       /\ (call'.name = "pop_number_operator" /\ run # <<>> /\ FitsUsize(run)) =>
              /\ Widen(ret'.n) = DecimalValue(run)
              /\ operator_stack' = <<>>]_vars

\* C2: pop_number_operator with no operator on the stack, or with one on top
\* that is not a Number, returns 1 and changes nothing.
C2_PopNumberDefault ==
    [][(call'.name = "pop_number_operator" /\ active_operator(World).kind # "Number")
           => ret'.n = Usize(1) /\ UNCHANGED program]_vars

C2_Witness ==
    /\ call.name = "pop_number_operator"
    /\ ret.n = Usize(1)
    /\ operator_stack = <<Number(Usize(2)), Replace>>
    /\ prior.depth = 2

\* C3: after switch_mode(target, leave_selections) the operator stack is
\* empty and the mode is target.
C3_SwitchModeClears ==
    [][call'.name = "switch_mode" => operator_stack' = <<>> /\ mode' = call'.mode]_vars

C3_Witness ==
    /\ call.name = "switch_mode"
    /\ call.leave_selections
    /\ prior.depth = 2
    /\ prior.mode = Insert
    /\ mode = Visual(TRUE)
    /\ operator_stack = <<>>

\* C4: pop_operator on a non-empty stack removes the top operator and
\* returns it; on an empty stack it panics, and no step follows a panic.
C4_PopOperator ==
    [][/\ fault = "none"
       /\ call'.name = "pop_operator" =>
              IF operator_stack # <<>>
              THEN /\ ret'.operator = operator_stack[Len(operator_stack)]
                   /\ operator_stack' =
                          SubSeq(operator_stack, 1, Len(operator_stack) - 1)
                   /\ fault' = "none"
              ELSE fault' = "pop_empty"]_vars

C4_Witness ==
    /\ call.name = "pop_operator"
    /\ prior.depth = 2
    /\ ret.operator = Replace
    /\ operator_stack = <<Delete>>
    /\ fault = "none"

\* the keystroke was handled by the vim namespace or by editor::Cancel
HandledByVimOrCancel(handled_by) ==
    /\ handled_by # None
    /\ \/ handled_by.namespace = "vim"
       \/ handled_by = [namespace |-> "editor", name |-> "Cancel"]

ArgumentPending(operator) == operator.kind \in {"FindForward", "FindBackward", "Replace"}

\* C5: a keystroke handled neither by the vim namespace nor by editor::Cancel,
\* observed while the active operator is FindForward, FindBackward or
\* Replace, leaves the whole operator stack (and everything else) unchanged.
C5_RouterKeepsArgumentPending ==
    [][(/\ call'.name = "observe_keystrokes"
        /\ ~HandledByVimOrCancel(call'.handled_by)
        /\ ArgumentPending(active_operator(World)))
           => UNCHANGED program]_vars

C5_Witness ==
    /\ call.name = "observe_keystrokes"
    /\ call.handled_by = None
    /\ enabled /\ mode = Normal
    /\ operator_stack = <<Number(Usize(2)), FindForward(FALSE)>>

\* C6: such a keystroke observed while any other operator is active empties
\* the operator stack; observed while no operator is active it changes nothing.
C6_RouterClearsOthers ==
    [][(call'.name = "observe_keystrokes" /\ ~HandledByVimOrCancel(call'.handled_by))
           => /\ (active_operator(World) # None
                  /\ ~ArgumentPending(active_operator(World)))
                     => operator_stack' = <<>>
              /\ active_operator(World) = None => UNCHANGED program]_vars

C6_Witness ==
    /\ call.name = "observe_keystrokes"
    /\ call.handled_by = [namespace |-> "editor", name |-> "MoveDown"]
    /\ prior.depth = 2
    /\ prior.active.kind = "Number"
    /\ operator_stack = <<>>

\* C7: a keystroke handled by the vim namespace or by editor::Cancel makes
\* the observer change nothing, whatever the active operator.
C7_RouterIgnoresHandled ==
    [][(call'.name = "observe_keystrokes" /\ HandledByVimOrCancel(call'.handled_by))
           => UNCHANGED program]_vars

C7_Witness ==
    /\ call.name = "observe_keystrokes"
    /\ call.handled_by = [namespace |-> "editor", name |-> "Cancel"]
    /\ mode = Visual(FALSE)
    /\ operator_stack = <<Number(Usize(2)), Delete>>

\* C8, as stated: set_enabled(true) while disabled, with an editor bound,
\* gives mode Normal, an empty stack, raw input disabled in the editor and
\* the cursor shape of Normal mode.
C8_EnableAsStated ==
    [][(/\ call'.name = "set_enabled" /\ call'.enabled /\ ~enabled
        /\ active_editor = "Some")
           => /\ mode' = Normal /\ operator_stack' = <<>>
              /\ ~editor'.input_enabled
              /\ editor'.cursor_shape = cursor_shape(Normal)]_vars

\* C8, amended: the same provided the bound editor is in full mode; an editor
\* in another mode is given the defaults instead (raw input enabled, Bar).
C8_Enable ==
    [][(/\ call'.name = "set_enabled" /\ call'.enabled /\ ~enabled
        /\ active_editor = "Some")
           => /\ mode' = Normal /\ operator_stack' = <<>>
              /\ IF editor.mode = "Full"
                 THEN /\ ~editor'.input_enabled
                      /\ editor'.cursor_shape = cursor_shape(Normal)
                 ELSE /\ editor'.input_enabled
                      /\ editor'.cursor_shape = "Bar"]_vars

C8_Witness ==
    /\ call = [name |-> "set_enabled", enabled |-> TRUE]
    /\ ~prior.enabled /\ enabled
    /\ active_editor = "Some" /\ editor.mode = "Full"
    /\ mode = Normal /\ operator_stack = <<>>
    /\ ~editor.input_enabled /\ editor.cursor_shape = "Block"

\* C9: set_enabled(false) while enabled, from any mode and stack, resets the
\* mode to the default mode and the stack to empty, and the line-mode flag
\* of the bound editor to false.
C9_Disable ==
    [][(call'.name = "set_enabled" /\ ~call'.enabled /\ enabled)
           => /\ mode' = DefaultVimState.mode /\ operator_stack' = <<>>
              /\ ~enabled'
              /\ active_editor = "Some" => ~editor'.line_mode]_vars

C9_Witness ==
    /\ call = [name |-> "set_enabled", enabled |-> FALSE]
    /\ prior.enabled /\ prior.mode = Visual(TRUE) /\ prior.line_mode
    /\ prior.depth = 2
    /\ active_editor = "Some"
    /\ ~enabled /\ mode = Normal /\ operator_stack = <<>> /\ ~editor.line_mode

\* C10: set_enabled(e) while the enabled flag is e already changes nothing.
C10_SetEnabledSame ==
    [][(call'.name = "set_enabled" /\ call'.enabled = enabled)
           => UNCHANGED program]_vars

C10_Witness ==
    /\ call = [name |-> "set_enabled", enabled |-> TRUE]
    /\ prior.enabled /\ enabled
    /\ mode = Visual(TRUE)
    /\ operator_stack = <<Number(Usize(2)), Delete>>
    /\ active_editor = "Some" /\ editor.line_mode

\* C11 as stated: switch_mode(m, false) on a bound editor collapses every
\* selection to its head clamped leftward when m requires empty selections,
\* and moves the non-head endpoint (the tail) to that clamped head when it
\* does not; switch_mode(m, true) changes no selection.
C11_SwitchModeSelectionsAsStated ==
    [][(call'.name = "switch_mode" /\ active_editor = "Some")
           => IF call'.leave_selections
              THEN editor'.selections = editor.selections
              ELSE /\ Len(editor'.selections) = Len(editor.selections)
                   /\ \A i \in DOMAIN editor.selections :
                        LET clamped == clip_point(editor', editor.selections[i].head)
                        IN  IF empty_selections_only(call'.mode)
                            THEN editor'.selections[i]
                                     = [tail |-> clamped, head |-> clamped]
                            ELSE editor'.selections[i].tail = clamped]_vars

\* C11: switch_mode(m, false) on a bound editor collapses every selection to
\* its head clamped leftward when m requires empty selections, and when it
\* does not moves the head to its clamped position and leaves the tail where
\* it was; switch_mode(m, true) changes no selection.
C11_SwitchModeSelections ==
    [][(call'.name = "switch_mode" /\ active_editor = "Some")
           => IF call'.leave_selections
              THEN editor'.selections = editor.selections
              ELSE /\ Len(editor'.selections) = Len(editor.selections)
                   /\ \A i \in DOMAIN editor.selections :
                        LET clamped == clip_point(editor', editor.selections[i].head)
                        IN  IF empty_selections_only(call'.mode)
                            THEN editor'.selections[i]
                                     = [tail |-> clamped, head |-> clamped]
                            ELSE editor'.selections[i]
                                     = [tail |-> editor.selections[i].tail,
                                        head |-> clamped]]_vars

\* switch_mode(Visual, false) has kept a selection whose tail is not its head
C11_Witness ==
    /\ call = [name |-> "switch_mode", mode |-> Visual(FALSE),
               leave_selections |-> FALSE]
    /\ active_editor = "Some" /\ enabled /\ editor.mode = "Full"
    /\ Len(editor.selections) = 2
    /\ editor.selections[1] = [tail |-> 0, head |-> LineLen]
    /\ editor.selections[2] = [tail |-> LineLen, head |-> 0]

\* a step of an operation that has called sync_vim_settings and returned
Reconciled ==
    /\ fault' = "none"
    /\ \/ call'.name \in {"switch_mode", "push_operator", "push_number",
                          "pop_operator", "clear_operator", "sync_vim_settings"}
       \/ call'.name = "set_enabled" /\ call'.enabled # enabled
       \/ call'.name = "pop_number_operator" /\ active_operator(World).kind = "Number"

\* C12 as stated: in every reachable state with FindForward, FindBackward or
\* Replace active, the system is enabled, the mode is not Insert and raw
\* input is suppressed on the bound editor.
C12_ArgumentPendingSuppressesInputAsStated ==
    ArgumentPending(active_operator(World))
        => /\ enabled /\ mode # Insert
           /\ active_editor = "Some" => ~editor.input_enabled

\* C12: after every operation that reconciles, with FindForward, FindBackward
\* or Replace active, raw input is suppressed on the bound editor exactly
\* when the system is enabled, the editor is a full one and the mode is not
\* Insert.
C12_ArgumentPendingSuppressesInput ==
    [][(Reconciled /\ active_editor' = "Some" /\ operator_stack' # <<>>
            /\ ArgumentPending(operator_stack'[Len(operator_stack')]))
           => (~editor'.input_enabled
                  <=> enabled' /\ editor'.mode = "Full" /\ mode' # Insert)]_vars

\* Replace has been pushed in Normal mode and the raw input is suppressed
C12_Witness ==
    /\ call = [name |-> "push_operator", operator |-> Replace]
    /\ active_operator(World) = Replace
    /\ enabled /\ mode = Normal
    /\ active_editor = "Some" /\ editor.mode = "Full"
    /\ ~editor.input_enabled

\* C13 as stated: when the handling of Cancel returns with an operator
\* pending before it, the operator stack is empty and the mode is Normal.
C13_CancelSynchronousAsStated ==
    [][(call'.name = "cancel" /\ operator_stack # <<>>)
           => operator_stack' = <<>> /\ mode' = Normal]_vars

\* C13: when the handling of Cancel returns with an operator pending before
\* it, the mode and the operator stack are as they were and the update is
\* pending; the stack is empty and the mode is Normal once the deferred
\* update has run.
C13_CancelDeferred ==
    [][/\ (call'.name = "cancel" /\ operator_stack # <<>>)
           => /\ operator_stack' = operator_stack /\ mode' = mode
              /\ deferred'
       /\ call'.name = "deferred_update"
           => operator_stack' = <<>> /\ mode' = Normal /\ ~deferred']_vars

\* Cancel has returned in Visual mode with Delete still pending
C13_Witness ==
    /\ call = [name |-> "cancel"]
    /\ deferred
    /\ enabled /\ mode = Visual(FALSE)
    /\ operator_stack = <<Delete>>

\* C19: Cancel handled while the mode is not Normal or an operator is active
\* is not propagated, and the controller is eventually, once the deferred
\* update has run, in Normal mode with an empty stack; Cancel handled in
\* Normal mode with no operator active is propagated and changes neither
\* the mode nor the stack.
C19_CancelPropagation ==
    /\ [][call'.name = "cancel"
              => IF mode # Normal \/ active_operator(World) # None
                 THEN ~ret'.propagated /\ deferred'
                 ELSE /\ ret'.propagated /\ ~deferred'
                      /\ mode' = mode /\ operator_stack' = operator_stack]_vars
    /\ deferred ~> (~deferred /\ mode = Normal /\ operator_stack = <<>>)

\* the update deferred by a Cancel in line-wise Visual mode with Replace
\* pending has run
C19_Witness ==
    /\ call = [name |-> "deferred_update"]
    /\ prior.mode = Visual(TRUE) /\ prior.active = Replace
    /\ ~deferred /\ mode = Normal /\ operator_stack = <<>>

\* C14: after every operation that reconciles, a bound editor has the
\* non-modal defaults (Bar cursor, no clipping at line ends, raw input
\* enabled, no line mode, no vim context layer) if the system is disabled or
\* the editor is not a full one, whatever the mode and the stack are.
C14_UnhookedDefaults ==
    [][(Reconciled /\ active_editor' = "Some"
            /\ (~enabled' \/ editor'.mode # "Full"))
           => /\ editor'.cursor_shape = "Bar"
              /\ ~editor'.clip_at_line_ends
              /\ editor'.input_enabled
              /\ ~editor'.line_mode
              /\ editor'.keymap_context_layer = None]_vars

\* an operator pushed in line-wise Visual mode over a single-line editor
C14_Witness ==
    /\ call.name = "push_operator"
    /\ enabled /\ mode = Visual(TRUE) /\ Len(operator_stack) = 2
    /\ active_editor = "Some" /\ editor.mode = "SingleLine"
    /\ editor.cursor_shape = "Bar" /\ editor.input_enabled /\ ~editor.line_mode

\* C15: in every state from init's first sync on, the vim namespace is in
\* the command palette filter exactly when the system is disabled.
C15_FilterFollowsEnabled == ("vim" \in filtered_namespaces) <=> ~enabled

\* the system has been enabled and the vim namespace has left the filter
C15_Witness ==
    /\ call = [name |-> "set_enabled", enabled |-> TRUE]
    /\ enabled /\ ~prior.enabled
    /\ "vim" \notin filtered_namespaces

C17_SwitchModeIdempotent ==
    \A m \in Modes, l \in BOOLEAN :
        LET once == switch_mode(World, m, l)
        IN  switch_mode(once, m, l) = once

\* switch_mode(Normal, false) was called in Normal mode with an empty stack,
\* as a second call is, over two selections clamped at the line's end
C17_Witness ==
    /\ call = [name |-> "switch_mode", mode |-> Normal, leave_selections |-> FALSE]
    /\ prior.mode = Normal /\ prior.depth = 0 /\ prior.enabled
    /\ enabled /\ active_editor = "Some" /\ editor.mode = "Full"
    /\ editor.clip_at_line_ends
    /\ Len(editor.selections) = 2
    /\ \A i \in DOMAIN editor.selections :
           editor.selections[i] = [tail |-> LineLen - 1, head |-> LineLen - 1]

\* C18: active_editor_input_ignored(text) with an empty text changes nothing
\* whatever the active operator is; with a text that is not empty, Replace
\* active and a mode that is neither Normal nor Visual it empties the
\* operator stack, leaves the mode as it was and does not panic.
C18_InputIgnoredFallback ==
    [][call'.name = "active_editor_input_ignored"
           => /\ call'.text = "" => UNCHANGED program
              /\ (/\ call'.text # ""
                  /\ active_operator(World) = Replace
                  /\ mode.kind \notin {"Normal", "Visual"})
                     => /\ operator_stack' = <<>>
                        /\ mode' = mode
                        /\ fault' = "none"]_vars

\* the text of Tab arrived in Insert mode with Replace active
C18_Witness ==
    /\ call = [name |-> "active_editor_input_ignored", text |-> " "]
    /\ prior.mode = Insert /\ prior.active = Replace /\ prior.depth = 2
    /\ mode = Insert /\ operator_stack = <<>> /\ fault = "none"

\* C20: the panic of a pop on the empty stack is reached through a direct
\* pop_operator call only: no step of any other operation pops the empty
\* stack.
C20_PopEmptyOnlyDirect ==
    [][fault' = "pop_empty"
           => call'.name = "pop_operator" /\ operator_stack = <<>>]_vars

\* pop_number_operator was called on the empty stack and popped nothing
C20_Witness ==
    /\ call.name = "pop_number_operator"
    /\ prior.depth = 0 /\ operator_stack = <<>>
    /\ ret = [kind |-> "usize", n |-> Usize(1)]
    /\ fault = "none"

====
